---------------------------- MODULE Spec2Model ----------------------------
(***************************************************************************)
(* A model of qq.py's client facade (src/qq/client.py) and of the member   *)
(* chunk coordinator (src/qq/state.py).                                    *)
(*                                                                         *)
(* The specifications, each over the part of the state it names:           *)
(*   SpecWaiters   Client.dispatch and the one-shot waiters of _listeners  *)
(*   SpecHandlers  Client.event, Client.dispatch and the handler tasks of  *)
(*                 _schedule_event and _run_event                          *)
(*   SpecConnect   Client.connect's reconnect loop and Client.close        *)
(*   SpecChunk     a ChunkRequest with cache=False: add_members, wait,     *)
(*                 get_future and done                                     *)
(*   SpecChunkCache  ChunkRequest.add_members and the guild's member cache *)
(* Every coroutine is cut at its awaits: what runs between two awaits is   *)
(* one action, since the asyncio loop runs one callback at a time.         *)
(***************************************************************************)
EXTENDS Integers, Sequences, FiniteSets, TLC

(***************************************************************************)
(* Bounds of the model.                                                    *)
(***************************************************************************)
MaxWaiters == 2
MaxArgs == 2
MaxTasks == 2
MaxAttempts == 2
MaxSeq == 1
MaxCallers == 2
MaxBuffer == 2
MaxOpt == 2

(***************************************************************************)
(* Values.                                                                 *)
(***************************************************************************)
Events == {"message", "disconnect"}

\* The positional arguments of one dispatch call: the tuples of length
\* 0..MaxArgs in which the two values alternate, <<>>, <<a>>, <<b>>, <<a, b>>,
\* <<b, a>>, ...: every length, either first argument, and from length two on
\* an order to keep.
ArgTuples ==
  {[i \in 1..n |-> IF (i + k) % 2 = 1 THEN "a" ELSE "b"] : n \in 0..MaxArgs, k \in 0..1}

\* Python values a future is resolved with.  `NoResult' is a future's result
\* slot before set_result.
NoResult == [kind |-> "unset", items |-> <<>>]
PyNone == [kind |-> "None", items |-> <<>>]
PyObj(x) == [kind |-> "object", items |-> <<x>>]
PyTuple(t) == [kind |-> "tuple", items |-> t]

\* The predicates registered with a waiter.  CallCondition is condition(*args):
\* "true", "false" (the truth value of what it returned) or "raise" (it raised
\* an Exception).
Conditions == {"always", "raises", "first_is_a"}

CallCondition(cond, args) ==
  CASE cond = "always" -> "true"
    [] cond = "raises" -> "raise"
    [] cond = "first_is_a" ->
         IF Len(args) >= 1 /\ args[1] = "a" THEN "true" ELSE "false"

\* The exception a raising predicate raises.
PredicateError == "PredicateError"

\* The host's coroutine functions and plain callables handed to Client.event;
\* name is coro.__name__ without its on_ prefix.
Handlers == {"h1", "h2"}
NoAttr == "NoAttr"
Coros == [name : Events, id : Handlers, iscoro : BOOLEAN]

VARIABLES
  futures,       \* the asyncio futures created for one-shot waiters, by id
  listeners,     \* Client._listeners: event -> list of (future, condition)
  attrs,         \* the on_<event> attributes of the client set by Client.event
  tasks,         \* the tasks created by _schedule_event, in creation order
  dispatchExc,   \* the exception the last dispatch call raised to its caller
  eventRaised    \* whether the last Client.event call raised TypeError

dispatchVars == <<futures, listeners, attrs, tasks, dispatchExc, eventRaised>>

VARIABLES
  closed,        \* Client._closed
  ready,         \* Client._ready.is_set()
  socks,         \* the QQWebSocket objects from_client has returned, by identity
  ws,            \* Client.ws: 0 for None, else the identity of a QQWebSocket
  http,          \* the REST transport: the number of HTTPClient.close() calls
  wsCloseCalls,  \* the number of QQWebSocket.close(code=1000) calls
  pc,            \* where connect() is
  reconnect,     \* connect's reconnect argument
  wsParams,      \* connect's local ws_params
  attempts,      \* the number of QQWebSocket.from_client calls connect has made
  sleeps,        \* the number of backoff sleeps connect has begun
  disconnects,   \* the number of dispatch('disconnect') calls connect has made
  lastCatch,     \* the last entry of one of connect's except clauses
  connectExc,    \* the exception connect raised, once pc = "raised"
  closePc,       \* where each caller's close() is
  closeTarget,   \* the QQWebSocket each caller's close() is closing
  connectCloses  \* the number of close() calls connect has made

connectVars ==
  <<closed, ready, socks, ws, http, wsCloseCalls, pc, reconnect, wsParams, attempts,
    sleeps, disconnects, lastCatch, connectExc, closePc, closeTarget, connectCloses>>

VARIABLES
  cr,            \* the ChunkRequest: its cache flag, buffer and waiters
  crFutures,     \* the futures wait() and get_future() have created, by id
  guildMembers,  \* the member cache of the guild the ChunkRequest is for
  arrived,       \* every member passed to add_members so far, in order
  doneCalled,    \* whether done() has been called
  arrivedAtDone, \* Len(arrived) when done() was first called
  firstRegAt,    \* Len(arrived) when the first waiter registered, -1 before
  doneExc        \* the exception the last call of done() raised, or "none"

chunkVars == <<cr, crFutures, guildMembers, arrived, doneCalled, arrivedAtDone, firstRegAt,
               doneExc>>

VARIABLES
  runPc,         \* where run()'s runner task is
  loopPc,        \* where run() is: the state of the loop it drives
  runnerEnd      \* how the runner task ended: "returned", "raised", "cancelled"

runVars == <<runPc, loopPc, runnerEnd>>

VARIABLES
  cs,            \* the last ConnectionState.__init__ call: its options and outcome
  guilds,        \* the ids of the guilds in the state manager's cache
  lastClear      \* what the last clear() call found

stateVars == <<cs, guilds, lastClear>>

vars == <<dispatchVars, connectVars, chunkVars, runVars, stateVars>>

(***************************************************************************)
(* asyncio.Future, as Client.dispatch uses it.                             *)
(***************************************************************************)
\* loop.create_future(); `event' remembers the event the waiter was
\* registered under.
NewFuture(event) ==
  [state |-> "PENDING", result |-> NoResult, exception |-> "none", event |-> event]

\* future.set_result(value): InvalidStateError unless the future is pending.
SetResult(futs, f, value) ==
  IF futs[f].state = "PENDING"
  THEN [futs |-> [futs EXCEPT ![f].state = "FINISHED", ![f].result = value],
        raised |-> "none"]
  ELSE [futs |-> futs, raised |-> "InvalidStateError"]

\* future.set_exception(exc)
SetException(futs, f, exc) ==
  IF futs[f].state = "PENDING"
  THEN [futs |-> [futs EXCEPT ![f].state = "FINISHED", ![f].exception = exc],
        raised |-> "none"]
  ELSE [futs |-> futs, raised |-> "InvalidStateError"]

(***************************************************************************)
(* Client.dispatch, lines 190-217: the scan of the event's waiters.        *)
(***************************************************************************)
\* (as ShapeResult, without the single-argument case)
ShapeResult_NoUnwrap(args) ==
  IF Len(args) = 0 THEN PyNone ELSE PyTuple(args)

\* The value a matching waiter is resolved with (lines 205-210).
ShapeResult(args) ==
  IF Len(args) = 0 THEN PyNone
  ELSE IF Len(args) = 1 THEN PyObj(args[1])
  ELSE PyTuple(args)

\* (as ScanStep, without the try/except around the predicate)
ScanStep_NoCatch(w, args, futs) ==
  IF futs[w.fut].state = "CANCELLED"
  THEN [futs |-> futs, remove |-> TRUE, raised |-> "none"]
  ELSE LET r == CallCondition(w.cond, args) IN
       IF r = "raise"
       THEN [futs |-> futs, remove |-> FALSE, raised |-> PredicateError]
       ELSE IF r = "true"
       THEN LET s == SetResult(futs, w.fut, ShapeResult(args)) IN
            [futs |-> s.futs, remove |-> s.raised = "none", raised |-> s.raised]
       ELSE [futs |-> futs, remove |-> FALSE, raised |-> "none"]

\* One iteration of the for loop (lines 194-211) on waiter w = (future, condition):
\* the futures after it, whether index i was appended to `removed', and the
\* exception that left the loop body, if any.
ScanStep(w, args, futs) ==
  IF futs[w.fut].state = "CANCELLED"
  THEN [futs |-> futs, remove |-> TRUE, raised |-> "none"]
  ELSE LET r == CallCondition(w.cond, args) IN
       IF r = "raise"
       THEN LET s == SetException(futs, w.fut, PredicateError) IN
            [futs |-> s.futs, remove |-> s.raised = "none", raised |-> s.raised]
       ELSE IF r = "true"
       THEN LET s == SetResult(futs, w.fut, ShapeResult(args)) IN
            [futs |-> s.futs, remove |-> s.raised = "none", raised |-> s.raised]
       ELSE [futs |-> futs, remove |-> FALSE, raised |-> "none"]

\* The for loop from index i on: the futures, the list `removed' and the
\* exception that ended the loop early, if any.
RECURSIVE Scan(_, _, _, _, _)
Scan(ls, i, args, futs, removed) ==
  IF i > Len(ls) THEN [futs |-> futs, removed |-> removed, raised |-> "none"]
  ELSE LET s == ScanStep(ls[i], args, futs) IN
       IF s.raised # "none"
       THEN [futs |-> s.futs, removed |-> removed, raised |-> s.raised]
       ELSE Scan(ls, i + 1, args, s.futs,
                 IF s.remove THEN Append(removed, i) ELSE removed)

\* del listeners[idx]
DelAt(ls, idx) == SubSeq(ls, 1, idx - 1) \o SubSeq(ls, idx + 1, Len(ls))

\* for idx in reversed(removed): del listeners[idx]   (lines 216-217)
RECURSIVE DelReversed(_, _)
DelReversed(ls, removed) ==
  IF removed = <<>> THEN ls
  ELSE DelReversed(DelAt(ls, removed[Len(removed)]), SubSeq(removed, 1, Len(removed) - 1))

\* (as DropRemoved, without the pop of an emptied list)
DropRemoved_KeepEntry(reg, event, ls, removed) ==
  [reg EXCEPT ![event] = DelReversed(ls, removed)]

\* Lines 213-217: the registry after the scan of a non-empty list ls of event.
DropRemoved(reg, event, ls, removed) ==
  IF Len(removed) = Len(ls)
  THEN [e \in (DOMAIN reg) \ {event} |-> reg[e]]
  ELSE [reg EXCEPT ![event] = DelReversed(ls, removed)]

\* Lines 190-217 as a whole.
ResolveListeners(reg, futs, event, args) ==
  LET ls == IF event \in DOMAIN reg THEN reg[event] ELSE <<>> IN
  IF ls = <<>> THEN [listeners |-> reg, futs |-> futs, raised |-> "none"]
  ELSE LET s == Scan(ls, 1, args, futs, <<>>) IN
       IF s.raised # "none"
       THEN [listeners |-> reg, futs |-> s.futs, raised |-> s.raised]
       ELSE [listeners |-> DropRemoved(reg, event, ls, s.removed),
             futs |-> s.futs, raised |-> "none"]

(***************************************************************************)
(* Client._schedule_event and Client._run_event, lines 168-184.            *)
(***************************************************************************)
\* The task asyncio.create_task makes of _run_event(coro, event_name, ...):
\* handlerExc says whether the handler raised an Exception, errs counts the
\* calls of on_error, exc is the exception the task ended with, afterFailure
\* remembers whether the handler of an earlier task had raised when this one
\* was created.
NewTask(event, coro, afterFailure) ==
  [event |-> event, coro |-> coro, st |-> "created", handlerExc |-> FALSE,
   errs |-> 0, exc |-> "none", afterFailure |-> afterFailure]

\* (as ScheduleEvent, with the new task put before the others)
ScheduleEvent_Prepend(ts, event, coro) ==
  [tasks |-> <<NewTask(event, coro, \E j \in DOMAIN ts : ts[j].handlerExc)>> \o ts,
   raised |-> "none"]

\* _schedule_event: the task list after it, and what it raised to dispatch.
\* ts is in the order of creation, which is the order in which the loop runs
\* the first steps of the tasks (create_task schedules it with call_soon).
ScheduleEvent(ts, event, coro) ==
  [tasks |-> Append(ts, NewTask(event, coro, \E j \in DOMAIN ts : ts[j].handlerExc)),
   raised |-> "none"]

HandlerOutcomes == {"return", "raise", "cancel"}

\* (as RunEvent, without the `except Exception' clause)
RunEvent_NoExcept(t, outcome) ==
  CASE outcome = "return" -> [t EXCEPT !.st = "done"]
    [] outcome = "cancel" -> [t EXCEPT !.st = "done"]
    [] outcome = "raise" ->
         [t EXCEPT !.st = "failed", !.handlerExc = TRUE, !.exc = "HandlerError"]

\* Lines 170-176: `await coro(*args, **kwargs)' ended with outcome.
RunEvent(t, outcome) ==
  CASE outcome = "return" -> [t EXCEPT !.st = "done"]
    [] outcome = "cancel" -> [t EXCEPT !.st = "done"]
    [] outcome = "raise" ->
         [t EXCEPT !.st = "on_error", !.handlerExc = TRUE, !.errs = @ + 1]

\* Lines 175-178: `await self.on_error(...)' ended with outcome.  An Exception
\* raised by an overridden on_error leaves _run_event and ends the task.
RunOnError(t, outcome) ==
  CASE outcome = "return" -> [t EXCEPT !.st = "done"]
    [] outcome = "cancel" -> [t EXCEPT !.st = "done"]
    [] outcome = "raise" -> [t EXCEPT !.st = "failed", !.exc = "OnErrorError"]

(***************************************************************************)
(* Client.event, lines 480-486.                                            *)
(***************************************************************************)
\* (as EventOutcome, with setattr before the iscoroutinefunction test)
EventOutcome_SetFirst(at, coro) ==
  [attrs |-> [at EXCEPT ![coro.name] = coro.id], raised |-> ~coro.iscoro]

EventOutcome(at, coro) ==
  IF ~coro.iscoro
  THEN [attrs |-> at, raised |-> TRUE]
  ELSE [attrs |-> [at EXCEPT ![coro.name] = coro.id], raised |-> FALSE]

(***************************************************************************)
(* The state after Client.__init__ (lines 104-136).                        *)
(***************************************************************************)
InitDispatch ==
  /\ futures = <<>>
  /\ listeners = <<>>
  /\ attrs = [e \in Events |-> NoAttr]
  /\ tasks = <<>>
  /\ dispatchExc = "none"
  /\ eventRaised = FALSE


(***************************************************************************)
(* Actions of the dispatch machinery.                                      *)
(***************************************************************************)
\* A one-shot waiter is registered: a fresh future and a predicate are
\* appended to the event's list, which is created when missing.
Register(event, cond) ==
  /\ Len(futures) < MaxWaiters
  /\ futures' = Append(futures, NewFuture(event))
  /\ LET w == [fut |-> Len(futures) + 1, cond |-> cond] IN
     listeners' =
       IF event \in DOMAIN listeners
       THEN [listeners EXCEPT ![event] = Append(@, w)]
       ELSE [e \in (DOMAIN listeners) \cup {event} |->
               IF e = event THEN <<w>> ELSE listeners[e]]
  /\ UNCHANGED <<attrs, tasks, dispatchExc, eventRaised>>
  /\ UNCHANGED connectVars
  /\ UNCHANGED <<chunkVars, runVars, stateVars>>

\* The caller waiting on a one-shot waiter gives up: future.cancel().
CancelWaiter(f) ==
  /\ f \in DOMAIN futures
  /\ futures[f].state = "PENDING"
  /\ futures' = [futures EXCEPT ![f].state = "CANCELLED"]
  /\ UNCHANGED <<listeners, attrs, tasks, dispatchExc, eventRaised>>
  /\ UNCHANGED connectVars
  /\ UNCHANGED <<chunkVars, runVars, stateVars>>

\* What Client.dispatch(event, *args), lines 186-224, does, whoever calls it.
DispatchCall(event, args) ==
  LET r == ResolveListeners(listeners, futures, event, args)
      sched == r.raised = "none" /\ attrs[event] # NoAttr
      s == IF sched THEN ScheduleEvent(tasks, event, attrs[event])
           ELSE [tasks |-> tasks, raised |-> r.raised]
  IN /\ sched => Len(tasks) < MaxTasks
     /\ futures' = r.futs
     /\ listeners' = r.listeners
     /\ tasks' = s.tasks
     /\ dispatchExc' = s.raised
     /\ UNCHANGED <<attrs, eventRaised>>

\* Client.dispatch(event, *args) called by the state manager's parsers or by
\* the host.
Dispatch(event, args) ==
  /\ DispatchCall(event, args)
  /\ UNCHANGED connectVars
  /\ UNCHANGED <<chunkVars, runVars, stateVars>>

\* Client.event(coro)
Event(coro) ==
  /\ LET o == EventOutcome(attrs, coro) IN
     /\ attrs' = o.attrs
     /\ eventRaised' = o.raised
  /\ UNCHANGED <<futures, listeners, tasks, dispatchExc>>
  /\ UNCHANGED connectVars
  /\ UNCHANGED <<chunkVars, runVars, stateVars>>

\* The loop runs a created task's first step: _run_event enters the handler,
\* which suspends at its first await.  The first steps are run in the order
\* in which create_task (line 184) scheduled them.
TaskStart(i) ==
  /\ i \in DOMAIN tasks
  /\ tasks[i].st = "created"
  /\ \A k \in 1..(i - 1) : tasks[k].st # "created"
  /\ tasks' = [tasks EXCEPT ![i].st = "running"]
  /\ UNCHANGED <<futures, listeners, attrs, dispatchExc, eventRaised>>
  /\ UNCHANGED connectVars
  /\ UNCHANGED <<chunkVars, runVars, stateVars>>

\* A created task is cancelled before its first step: _run_event never runs.
TaskCancelEarly(i) ==
  /\ i \in DOMAIN tasks
  /\ tasks[i].st = "created"
  /\ tasks' = [tasks EXCEPT ![i].st = "cancelled"]
  /\ UNCHANGED <<futures, listeners, attrs, dispatchExc, eventRaised>>
  /\ UNCHANGED connectVars
  /\ UNCHANGED <<chunkVars, runVars, stateVars>>

\* The handler ends: it returns, raises an Exception, or CancelledError is
\* raised in it.
HandlerEnds(i, outcome) ==
  /\ i \in DOMAIN tasks
  /\ tasks[i].st = "running"
  /\ tasks' = [tasks EXCEPT ![i] = RunEvent(@, outcome)]
  /\ UNCHANGED <<futures, listeners, attrs, dispatchExc, eventRaised>>
  /\ UNCHANGED connectVars
  /\ UNCHANGED <<chunkVars, runVars, stateVars>>

\* on_error ends.
OnErrorEnds(i, outcome) ==
  /\ i \in DOMAIN tasks
  /\ tasks[i].st = "on_error"
  /\ tasks' = [tasks EXCEPT ![i] = RunOnError(@, outcome)]
  /\ UNCHANGED <<futures, listeners, attrs, dispatchExc, eventRaised>>
  /\ UNCHANGED connectVars
  /\ UNCHANGED <<chunkVars, runVars, stateVars>>

\* The one-shot waiters and dispatch.
NextWaiters ==
  \/ \E e \in Events, c \in Conditions : Register(e, c)
  \/ \E f \in 1..MaxWaiters : CancelWaiter(f)
  \/ \E e \in Events, a \in ArgTuples : Dispatch(e, a)

\* The registered handlers, dispatch and the handler tasks.
NextHandlers ==
  \/ \E c \in Coros : Event(c)
  \/ \E e \in Events, a \in ArgTuples : Dispatch(e, a)
  \/ \E i \in 1..MaxTasks : TaskStart(i)
  \/ \E i \in 1..MaxTasks : TaskCancelEarly(i)
  \/ \E i \in 1..MaxTasks, o \in HandlerOutcomes : HandlerEnds(i, o)
  \/ \E i \in 1..MaxTasks, o \in HandlerOutcomes : OnErrorEnds(i, o)

(***************************************************************************)
(* Client.close, lines 465-478.                                            *)
(***************************************************************************)
\* The callers of close(): connect itself (lines 434, 454), run's runner
\* (line 344) and the host's own tasks.
Hosts == {"host1", "host2"}
Closers == {"connect", "runner"} \cup Hosts

\* (as CloseEntry, with _closed not set before the awaits)
CloseEntry_FlagLate(isClosed, w, sks) ==
  IF isClosed THEN [closed |-> TRUE, at |-> "done", wsCalls |-> 0, httpCalls |-> 0]
  ELSE IF w # 0 /\ sks[w].open
  THEN [closed |-> FALSE, at |-> "ws_close", wsCalls |-> 1, httpCalls |-> 0]
  ELSE [closed |-> FALSE, at |-> "http_close", wsCalls |-> 0, httpCalls |-> 1]

\* close() from its call to its first suspension (lines 469-477), given
\* self._closed, self.ws and the sockets: the flag after it, where it is
\* suspended ("done" when it returned at once), and the close calls it made.
CloseEntry(isClosed, w, sks) ==
  IF isClosed THEN [closed |-> TRUE, at |-> "done", wsCalls |-> 0, httpCalls |-> 0]
  ELSE IF w # 0 /\ sks[w].open
  THEN [closed |-> TRUE, at |-> "ws_close", wsCalls |-> 1, httpCalls |-> 0]
  ELSE [closed |-> TRUE, at |-> "http_close", wsCalls |-> 0, httpCalls |-> 1]

\* Caller c calls close(), the sockets being sks.
CloseCall(c, sks) ==
  LET r == CloseEntry(closed, ws, sks) IN
  /\ closed' = r.closed
  /\ wsCloseCalls' = wsCloseCalls + r.wsCalls
  /\ http' = http + r.httpCalls
  /\ closePc' = [closePc EXCEPT ![c] = r.at]
  /\ closeTarget' = [closeTarget EXCEPT ![c] = IF r.at = "ws_close" THEN ws ELSE 0]

(***************************************************************************)
(* Client.connect, lines 391-463.                                          *)
(***************************************************************************)
\* What from_client and poll_event raise into connect's second except clause
\* (lines 425-430); n is the errno of an OSError and the code of a
\* ConnectionClosed.
Failures ==
  [kind : {"OSError"}, n : {54, 10054, 104}]
    \cup [kind : {"HTTPException", "GatewayNotFound", "ClientError", "TimeoutError"}, n : {0}]
    \cup [kind : {"ConnectionClosed"}, n : {1000, 4010}]

\* ReconnectWebSocket(resume=...), caught by the first except clause.
ReconnectWebSocket(resume) == [kind |-> "ReconnectWebSocket", n |-> IF resume THEN 1 ELSE 0]

NoExc == [kind |-> "none", n |-> 0]
AttributeError == [kind |-> "AttributeError", n |-> 0]

\* (as CatchPath, without the test for a clean closure)
CatchPath_NoCleanTest(exc, rec, isClosed) ==
  IF ~rec THEN "close_raise"
  ELSE IF isClosed THEN "return"
  ELSE IF exc.kind = "OSError" /\ exc.n \in {54, 10054} THEN "resume_now"
  ELSE IF exc.kind = "ConnectionClosed" /\ exc.n # 1000 THEN "fatal"
  ELSE "backoff"

\* (as CatchPath, without the test for a fatal closure)
CatchPath_RetryFatal(exc, rec, isClosed) ==
  IF ~rec
  THEN IF exc.kind = "ConnectionClosed" /\ exc.n = 1000 THEN "close_return"
       ELSE "close_raise"
  ELSE IF isClosed THEN "return"
  ELSE IF exc.kind = "OSError" /\ exc.n \in {54, 10054} THEN "resume_now"
  ELSE "backoff"

\* (as CatchPath, with the test for a peer reset made first)
CatchPath_ResetFirst(exc, rec, isClosed) ==
  IF exc.kind = "OSError" /\ exc.n \in {54, 10054} THEN "resume_now"
  ELSE IF ~rec
  THEN IF exc.kind = "ConnectionClosed" /\ exc.n = 1000 THEN "close_return"
       ELSE "close_raise"
  ELSE IF isClosed THEN "return"
  ELSE IF exc.kind = "ConnectionClosed" /\ exc.n # 1000 THEN "fatal"
  ELSE "backoff"

\* The branch the second except clause takes (lines 433-457) for exception
\* exc, reconnect argument rec and closed flag isClosed.
CatchPath(exc, rec, isClosed) ==
  IF ~rec
  THEN IF exc.kind = "ConnectionClosed" /\ exc.n = 1000 THEN "close_return"
       ELSE "close_raise"
  ELSE IF isClosed THEN "return"
  ELSE IF exc.kind = "OSError" /\ exc.n \in {54, 10054} THEN "resume_now"
  ELSE IF exc.kind = "ConnectionClosed" /\ exc.n # 1000 THEN "fatal"
  ELSE "backoff"

\* ws_params before the first attempt (lines 409-412); resume, sequence and
\* session are not keys of it yet ("unset", -1, 0).
InitialParams == [initial |-> TRUE, resume |-> "unset", sequence |-> -1, session |-> 0]

\* (as UpdateParams, always asking for a resume)
UpdateParams_ForceResume(p, sock, resume) ==
  [p EXCEPT !.sequence = sock.sequence, !.resume = "true", !.session = sock.session]

\* ws_params.update(sequence=self.ws.sequence, resume=..., session=self.ws.session_id)
UpdateParams(p, sock, resume) ==
  [p EXCEPT !.sequence = sock.sequence, !.resume = IF resume THEN "true" ELSE "false",
            !.session = sock.session]

\* The QQWebSocket that from_client, called with ws_params p, returns as the
\* id-th socket of the client: a resume continues the given session.
NewSocket(id, p) ==
  IF p.resume = "true"
  THEN [open |-> TRUE, sequence |-> p.sequence, session |-> p.session]
  ELSE [open |-> TRUE, sequence |-> 0, session |-> id]

\* What entering an except clause with exception exc finds.
CatchRecord(exc) ==
  [exc |-> exc, closed |-> closed, first |-> ws = 0, attempts |-> attempts,
   sleeps |-> sleeps, disconnects |-> disconnects, closes |-> connectCloses]

\* (as EnterLoop, without the test of is_closed())
EnterLoop_NoClosedTest(p) ==
  /\ wsParams' = p
  /\ attempts < MaxAttempts /\ pc' = "connecting" /\ attempts' = attempts + 1

\* The head of the while loop (line 413) and, when the client is not closed,
\* the call of from_client (lines 415-416), with ws_params p.
EnterLoop(p) ==
  /\ wsParams' = p
  /\ IF closed
     THEN pc' = "returned" /\ attempts' = attempts
     ELSE attempts < MaxAttempts /\ pc' = "connecting" /\ attempts' = attempts + 1

\* What a call of connect(reconnect=r) does up to its first await, whoever
\* calls it (lines 408-416).
ConnectBegin(r) ==
  /\ pc = "idle"
  /\ reconnect' = r
  /\ EnterLoop(InitialParams)
  /\ UNCHANGED <<closed, ready, socks, ws, http, wsCloseCalls, sleeps, disconnects,
                 lastCatch, connectExc, closePc, closeTarget, connectCloses>>
  /\ UNCHANGED dispatchVars
  /\ UNCHANGED <<chunkVars, stateVars>>

\* connect(reconnect=r) is called by the host.
ConnectStart(r) ==
  /\ ConnectBegin(r)
  /\ UNCHANGED runVars

\* from_client returns a connected QQWebSocket (lines 416-417).
ConnectOk ==
  /\ pc = "connecting"
  /\ socks' = Append(socks, NewSocket(Len(socks) + 1, wsParams))
  /\ ws' = Len(socks) + 1
  /\ wsParams' = [wsParams EXCEPT !.initial = FALSE]
  /\ pc' = "polling"
  /\ UNCHANGED <<closed, ready, http, wsCloseCalls, reconnect, attempts, sleeps,
                 disconnects, lastCatch, connectExc, closePc, closeTarget, connectCloses>>
  /\ UNCHANGED dispatchVars
  /\ UNCHANGED <<chunkVars, runVars, stateVars>>

\* poll_event handles a frame: the sequence number advances (line 419).
PollEvent ==
  /\ pc = "polling"
  /\ socks[ws].sequence < MaxSeq
  /\ socks' = [socks EXCEPT ![ws].sequence = @ + 1]
  /\ UNCHANGED <<closed, ready, ws, http, wsCloseCalls, pc, reconnect, wsParams, attempts,
                 sleeps, disconnects, lastCatch, connectExc, closePc, closeTarget,
                 connectCloses>>
  /\ UNCHANGED dispatchVars
  /\ UNCHANGED <<chunkVars, runVars, stateVars>>

\* poll_event handles READY: the state manager calls _handle_ready (lines 145-146).
PollReady ==
  /\ pc = "polling"
  /\ ~ready
  /\ ready' = TRUE
  /\ UNCHANGED <<closed, socks, ws, http, wsCloseCalls, pc, reconnect, wsParams, attempts,
                 sleeps, disconnects, lastCatch, connectExc, closePc, closeTarget,
                 connectCloses>>
  /\ UNCHANGED dispatchVars
  /\ UNCHANGED <<chunkVars, runVars, stateVars>>

\* poll_event raises ReconnectWebSocket (lines 420-424).
PollReconnect(resume) ==
  /\ pc = "polling"
  /\ DispatchCall("disconnect", <<>>)
  /\ disconnects' = disconnects + 1
  /\ lastCatch' = CatchRecord(ReconnectWebSocket(resume))
  /\ EnterLoop(UpdateParams(wsParams, socks[ws], resume))
  /\ UNCHANGED <<closed, ready, socks, ws, http, wsCloseCalls, reconnect, sleeps,
                 connectExc, closePc, closeTarget, connectCloses>>
  /\ UNCHANGED <<chunkVars, runVars, stateVars>>

\* How connect ends once its own close() call has returned (lines 435-438, 455).
AfterClose(path, exc) ==
  /\ pc' = IF path = "close_return" THEN "returned" ELSE "raised"
  /\ connectExc' = IF path = "close_return" THEN NoExc ELSE exc

\* The second except clause (lines 425-459) up to its first suspension, for
\* exception exc, the sockets being sks.
Catch(exc, sks) ==
  LET path == CatchPath(exc, reconnect, closed) IN
  /\ DispatchCall("disconnect", <<>>)
  /\ disconnects' = disconnects + 1
  /\ lastCatch' = CatchRecord(exc)
  /\ CASE path \in {"close_return", "close_raise", "fatal"} ->
            /\ connectCloses' = connectCloses + 1
            /\ CloseCall("connect", sks)
            /\ IF closePc'["connect"] = "done"
               THEN AfterClose(path, exc)
               ELSE pc' = "closing" /\ connectExc' = connectExc
            /\ UNCHANGED <<wsParams, attempts, sleeps>>
       [] path = "return" ->
            /\ pc' = "returned"
            /\ UNCHANGED <<closed, http, wsCloseCalls, wsParams, attempts, sleeps,
                           connectExc, closePc, closeTarget, connectCloses>>
       [] path = "resume_now" ->
            /\ IF ws = 0
               THEN /\ pc' = "raised" /\ connectExc' = AttributeError
                    /\ UNCHANGED <<wsParams, attempts>>
               ELSE /\ EnterLoop([UpdateParams(wsParams, sks[ws], TRUE) EXCEPT !.initial = FALSE])
                    /\ connectExc' = connectExc
            /\ UNCHANGED <<closed, http, wsCloseCalls, sleeps, closePc, closeTarget,
                           connectCloses>>
       [] path = "backoff" ->
            /\ sleeps' = sleeps + 1
            /\ pc' = "sleeping"
            /\ UNCHANGED <<closed, http, wsCloseCalls, wsParams, attempts, connectExc,
                           closePc, closeTarget, connectCloses>>

\* from_client raises exc (lines 415-416).
ConnectFails(exc) ==
  /\ pc = "connecting"
  /\ Catch(exc, socks)
  /\ UNCHANGED <<ready, socks, ws, reconnect>>
  /\ UNCHANGED <<chunkVars, runVars, stateVars>>

\* poll_event raises exc (line 419); the socket may be left open or not.
PollFails(exc, stillOpen) ==
  /\ pc = "polling"
  /\ socks' = [socks EXCEPT ![ws].open = @ /\ stillOpen]
  /\ Catch(exc, socks')
  /\ UNCHANGED <<ready, ws, reconnect>>
  /\ UNCHANGED <<chunkVars, runVars, stateVars>>

\* The backoff sleep is over (lines 459-463).
AfterSleep ==
  /\ pc = "sleeping"
  /\ IF ws = 0
     THEN /\ pc' = "raised" /\ connectExc' = AttributeError
          /\ UNCHANGED <<wsParams, attempts>>
     ELSE /\ EnterLoop(UpdateParams(wsParams, socks[ws], TRUE))
          /\ connectExc' = connectExc
  /\ UNCHANGED <<closed, ready, socks, ws, http, wsCloseCalls, reconnect, sleeps,
                 disconnects, lastCatch, closePc, closeTarget, connectCloses>>
  /\ UNCHANGED dispatchVars
  /\ UNCHANGED <<chunkVars, runVars, stateVars>>

\* The host (a handler, another task) calls close().
HostClose(c) ==
  /\ c \in Hosts
  /\ closePc[c] \in {"idle", "done"}
  /\ CloseCall(c, socks)
  /\ UNCHANGED <<ready, socks, ws, pc, reconnect, wsParams, attempts, sleeps,
                 disconnects, lastCatch, connectExc, connectCloses>>
  /\ UNCHANGED dispatchVars
  /\ UNCHANGED <<chunkVars, runVars, stateVars>>

\* `await self.ws.close(code=1000)' returns in c's close(), which goes on to
\* call self.http.close() (lines 475-477).
CloseWsDone(c) ==
  /\ closePc[c] = "ws_close"
  /\ socks' = [socks EXCEPT ![closeTarget[c]].open = FALSE]
  /\ http' = http + 1
  /\ closePc' = [closePc EXCEPT ![c] = "http_close"]
  /\ UNCHANGED <<closed, ready, ws, wsCloseCalls, pc, reconnect, wsParams, attempts,
                 sleeps, disconnects, lastCatch, connectExc, closeTarget, connectCloses>>
  /\ UNCHANGED dispatchVars
  /\ UNCHANGED <<chunkVars, runVars, stateVars>>

\* `await self.http.close()' returns in a host's close(), which clears _ready
\* and returns (lines 477-478).
HostCloseDone(c) ==
  /\ c \in Hosts
  /\ closePc[c] = "http_close"
  /\ ready' = FALSE
  /\ closePc' = [closePc EXCEPT ![c] = "done"]
  /\ UNCHANGED <<closed, socks, ws, http, wsCloseCalls, pc, reconnect, wsParams,
                 attempts, sleeps, disconnects, lastCatch, connectExc, closeTarget,
                 connectCloses>>
  /\ UNCHANGED dispatchVars
  /\ UNCHANGED <<chunkVars, runVars, stateVars>>

\* The same in connect's close(); connect then returns or re-raises.
ConnectCloseDone ==
  /\ pc = "closing"
  /\ closePc["connect"] = "http_close"
  /\ ready' = FALSE
  /\ closePc' = [closePc EXCEPT !["connect"] = "done"]
  /\ AfterClose(CatchPath(lastCatch.exc, reconnect, lastCatch.closed), lastCatch.exc)
  /\ UNCHANGED <<closed, socks, ws, http, wsCloseCalls, reconnect, wsParams, attempts,
                 sleeps, disconnects, lastCatch, closeTarget, connectCloses>>
  /\ UNCHANGED dispatchVars
  /\ UNCHANGED <<chunkVars, runVars, stateVars>>

InitConnect ==
  /\ closed = FALSE
  /\ ready = FALSE
  /\ socks = <<>>
  /\ ws = 0
  /\ http = 0
  /\ wsCloseCalls = 0
  /\ pc = "idle"
  /\ reconnect = TRUE
  /\ wsParams = InitialParams
  /\ attempts = 0
  /\ sleeps = 0
  /\ disconnects = 0
  /\ lastCatch = [exc |-> NoExc, closed |-> FALSE, first |-> TRUE, attempts |-> 0,
                  sleeps |-> 0, disconnects |-> 0, closes |-> 0]
  /\ connectExc = NoExc
  /\ closePc = [c \in Closers |-> "idle"]
  /\ closeTarget = [c \in Closers |-> 0]
  /\ connectCloses = 0

NextConnect ==
  \/ \E r \in BOOLEAN : ConnectStart(r)
  \/ ConnectOk
  \/ PollEvent
  \/ PollReady
  \/ \E r \in BOOLEAN : PollReconnect(r)
  \/ \E x \in Failures : ConnectFails(x)
  \/ \E x \in Failures, o \in BOOLEAN : PollFails(x, o)
  \/ AfterSleep
  \/ \E c \in Closers : HostClose(c)
  \/ \E c \in Closers : CloseWsDone(c)
  \/ \E c \in Closers : HostCloseDone(c)
  \/ ConnectCloseDone

(***************************************************************************)
(* Client.run and Client.start, lines 311-377, with _cancel_tasks and       *)
(* _cleanup_loop, lines 29-59.                                              *)
(***************************************************************************)
\* stop_loop_on_completion (lines 346-350): loop.stop() once the runner task
\* is done, while run_forever is still running the loop.
StopOnCompletion(runnerPc, lp) ==
  IF runnerPc = "done" /\ lp = "running" THEN "stopping" ELSE lp

\* The finally clause of runner (lines 342-344), start having ended as `how'.
RunnerFinally(how) ==
  /\ runnerEnd' = how
  /\ IF closed
     THEN /\ runPc' = "done"
          /\ UNCHANGED <<closed, http, wsCloseCalls, closePc, closeTarget>>
     ELSE /\ CloseCall("runner", socks)
          /\ runPc' = "closing"
  /\ loopPc' = StopOnCompletion(runPc', loopPc)

\* run() is called (lines 331-352): the runner task is created, run_forever
\* starts the loop and the task's first step enters start and login, which
\* suspends in the REST transport (lines 339-341, 376, 244).
RunCall ==
  /\ loopPc = "not_run"
  /\ pc = "idle"
  /\ loopPc' = "running"
  /\ runPc' = "login"
  /\ UNCHANGED runnerEnd
  /\ UNCHANGED <<dispatchVars, connectVars, chunkVars, stateVars>>

\* login raises (LoginFailure, HTTPException): start raises into runner.
LoginFails ==
  /\ runPc = "login"
  /\ loopPc \in {"running", "stopping"}
  /\ RunnerFinally("raised")
  /\ UNCHANGED <<ready, socks, ws, pc, reconnect, wsParams, attempts, sleeps, disconnects,
                 lastCatch, connectExc, connectCloses>>
  /\ UNCHANGED <<dispatchVars, chunkVars, stateVars>>

\* login returns and start calls connect(reconnect=r) (line 377).
LoginOk(r) ==
  /\ runPc = "login"
  /\ loopPc \in {"running", "stopping"}
  /\ ConnectBegin(r)
  /\ runPc' = "connect"
  /\ UNCHANGED <<loopPc, runnerEnd>>

\* connect has returned or raised in the runner's task: start ends the same
\* way and runner's finally clause runs, in the same step of the task.
RunnerMidStep == runPc = "connect" /\ pc \in {"returned", "raised"}

StartEnds ==
  /\ RunnerMidStep
  /\ RunnerFinally(pc)
  /\ UNCHANGED <<ready, socks, ws, pc, reconnect, wsParams, attempts, sleeps, disconnects,
                 lastCatch, connectExc, connectCloses>>
  /\ UNCHANGED <<dispatchVars, chunkVars, stateVars>>

\* `await self.http.close()' returns in runner's close(), which clears _ready;
\* runner is done (lines 477-478, 344).
RunnerCloseDone ==
  /\ runPc = "closing"
  /\ closePc["runner"] = "http_close"
  /\ ready' = FALSE
  /\ closePc' = [closePc EXCEPT !["runner"] = "done"]
  /\ runPc' = "done"
  /\ loopPc' = StopOnCompletion("done", loopPc)
  /\ UNCHANGED runnerEnd
  /\ UNCHANGED <<closed, socks, ws, http, wsCloseCalls, pc, reconnect, wsParams,
                 attempts, sleeps, disconnects, lastCatch, connectExc, closeTarget,
                 connectCloses>>
  /\ UNCHANGED <<dispatchVars, chunkVars, stateVars>>

\* SIGINT or SIGTERM: the signal handler calls loop.stop() (lines 334-335).
Interrupt ==
  /\ loopPc = "running"
  /\ loopPc' = "stopping"
  /\ UNCHANGED <<runPc, runnerEnd>>
  /\ UNCHANGED <<dispatchVars, connectVars, chunkVars, stateVars>>

\* A close() call suspended at one of its awaits is left by CancelledError.
CutCloses(cpc) ==
  [c \in Closers |-> IF cpc[c] \in {"ws_close", "http_close"} THEN "cancelled" ELSE cpc[c]]

\* run_forever has returned; _cleanup_loop cancels every task that is not done
\* and runs the loop until all of them have ended (lines 355-358, 29-39).
\* CancelledError is raised at the await each task is suspended at: it is not
\* caught in close(), nor in connect (lines 420, 425-430) or start, and
\* reaches runner's finally clause, where close() is called unless the client
\* is closed already.
Cleanup ==
  /\ loopPc = "stopping"
  /\ loopPc' = "cleanup"
  /\ LET inStart == runPc \in {"login", "connect"}
         r == CloseEntry(closed, ws, socks)
         closes == inStart /\ ~closed
     IN /\ pc' = IF runPc = "connect" THEN "cancelled" ELSE pc
        /\ runnerEnd' = IF runPc = "done" THEN runnerEnd ELSE "cancelled"
        /\ runPc' = IF closes THEN "closing" ELSE "done"
        /\ closed' = IF closes THEN r.closed ELSE closed
        /\ wsCloseCalls' = IF closes THEN wsCloseCalls + r.wsCalls ELSE wsCloseCalls
        /\ http' = IF closes THEN http + r.httpCalls ELSE http
        /\ closePc' = IF closes THEN [CutCloses(closePc) EXCEPT !["runner"] = r.at]
                      ELSE CutCloses(closePc)
        /\ closeTarget' = IF closes /\ r.at = "ws_close"
                          THEN [closeTarget EXCEPT !["runner"] = ws] ELSE closeTarget
  /\ UNCHANGED <<ready, socks, ws, reconnect, wsParams, attempts, sleeps, disconnects,
                 lastCatch, connectExc, connectCloses>>
  /\ UNCHANGED <<dispatchVars, chunkVars, stateVars>>

\* Every task has ended: the loop is closed and run returns, or raises what
\* start raised (lines 358-365).
RunReturns ==
  /\ loopPc = "cleanup"
  /\ runPc = "done"
  /\ loopPc' = "returned"
  /\ UNCHANGED <<runPc, runnerEnd>>
  /\ UNCHANGED <<dispatchVars, connectVars, chunkVars, stateVars>>

InitRun ==
  /\ runPc = "idle"
  /\ loopPc = "not_run"
  /\ runnerEnd = "none"

\* While the loop runs its tasks (not yet in _cleanup_loop).
LoopTurning == loopPc \in {"running", "stopping"}

\* run(): the runner task with start, login and connect in it, the host's
\* tasks calling close(), the signals and the cleanup.
NextRun ==
  \/ RunCall
  \/ LoginFails
  \/ \E r \in BOOLEAN : LoginOk(r)
  \/ StartEnds
  \/ ~RunnerMidStep /\ ConnectOk
  \/ ~RunnerMidStep /\ PollReady
  \/ ~RunnerMidStep /\ \E x \in Failures : ConnectFails(x)
  \/ ~RunnerMidStep /\ \E x \in Failures, o \in BOOLEAN : PollFails(x, o)
  \/ ~RunnerMidStep /\ AfterSleep
  \/ ~RunnerMidStep /\ LoopTurning /\ \E c \in Hosts : HostClose(c)
  \/ ~RunnerMidStep /\ \E c \in Closers : CloseWsDone(c)
  \/ ~RunnerMidStep /\ \E c \in Hosts : HostCloseDone(c)
  \/ ~RunnerMidStep /\ ConnectCloseDone
  \/ ~RunnerMidStep /\ RunnerCloseDone
  \/ ~RunnerMidStep /\ Interrupt
  \/ ~RunnerMidStep /\ Cleanup
  \/ ~RunnerMidStep /\ RunReturns

(***************************************************************************)
(* ChunkRequest, src/qq/state.py lines 13-58.                              *)
(***************************************************************************)
MemberIds == {1, 2}

\* A member: its id and joined_at, 0 for None.
Members == [id : MemberIds, joined_at : {0, 1}]

\* guild.get_member(id) returning None.
NoMember == [id |-> 0, joined_at |-> 0]

\* The lists of members one add_members call is given.
RECURSIVE SeqsUpTo(_, _)
SeqsUpTo(S, n) ==
  IF n = 0 THEN {<<>>}
  ELSE LET shorter == SeqsUpTo(S, n - 1) IN
       shorter \cup {Append(q, x) : q \in {t \in shorter : Len(t) = n - 1}, x \in S}

\* (as MergeMember, replacing whatever is cached)
MergeMember_Always(cache, member) ==
  [cache EXCEPT ![member.id] = member]

\* Lines 38-40: one member is merged into the guild's cache.
MergeMember(cache, member) ==
  LET existing == cache[member.id] IN
  IF existing = NoMember \/ existing.joined_at = 0
  THEN [cache EXCEPT ![member.id] = member]
  ELSE cache

\* The for loop of lines 37-40.
RECURSIVE MergeAll(_, _)
MergeAll(cache, members) ==
  IF members = <<>> THEN cache
  ELSE MergeAll(MergeMember(cache, Head(members)), Tail(members))

\* (as ExtendBuffer, keeping members only while somebody waits)
ExtendBuffer_WhenAwaited(buf, members, waiters) ==
  IF waiters = <<>> THEN buf ELSE buf \o members

\* Line 31: self.buffer.extend(members)
ExtendBuffer(buf, members, waiters) == buf \o members

\* loop.create_future() in wait ("wait") or get_future ("get_future");
\* beforeDone says whether done() had not been called yet, resumed whether the
\* caller of wait() has resumed from `await future', sets counts the calls of
\* set_result that resolved the future, skipped says whether a call of done()
\* has passed over it.
NewChunkFuture(kind) ==
  [kind |-> kind, state |-> "PENDING", result |-> "unset", resumed |-> FALSE,
   beforeDone |-> ~doneCalled, sets |-> 0, skipped |-> FALSE]

\* future.set_result(self.buffer): InvalidStateError when the future is done
\* or cancelled.
ChunkSetResult(futs, f) ==
  IF futs[f].state = "PENDING"
  THEN [futs |-> [futs EXCEPT ![f].state = "FINISHED", ![f].result = "buffer",
                              ![f].sets = @ + 1],
        raised |-> "none"]
  ELSE [futs |-> futs, raised |-> "InvalidStateError"]

\* (as DoneStep, without the test of future.done())
DoneStep_NoTest(futs, f) == ChunkSetResult(futs, f)

\* Lines 57-58: one iteration of the loop of done() on future f.
DoneStep(futs, f) ==
  IF futs[f].state # "PENDING"
  THEN [futs |-> [futs EXCEPT ![f].skipped = TRUE], raised |-> "none"]
  ELSE ChunkSetResult(futs, f)

\* Lines 55-58: the futures after done() and the exception that ended its
\* loop early, if any; each pending waiter is resolved with self.buffer, the
\* list object itself.
RECURSIVE ResolveAll(_, _)
ResolveAll(futs, waiters) ==
  IF waiters = <<>> THEN [futs |-> futs, raised |-> "none"]
  ELSE LET s == DoneStep(futs, Head(waiters)) IN
       IF s.raised # "none" THEN s
       ELSE ResolveAll(s.futs, Tail(waiters))

\* self.waiters.remove(future)
RemoveWaiter(waiters, f) == SelectSeq(waiters, LAMBDA x : x # f)

\* ChunkRequest(guild_id, loop, resolver, cache=c), lines 14-28.
ChunkInit(c) ==
  /\ ~cr.exists
  /\ cr' = [exists |-> TRUE, cache |-> c, buffer |-> <<>>, waiters |-> <<>>]
  /\ UNCHANGED <<crFutures, guildMembers, arrived, doneCalled, arrivedAtDone, firstRegAt, doneExc>>
  /\ UNCHANGED <<dispatchVars, connectVars, runVars, stateVars>>

\* A parser caches a member from a full payload: guild._add_member(member).
GuildAddMember(member) ==
  /\ guildMembers' = [guildMembers EXCEPT ![member.id] = member]
  /\ UNCHANGED <<cr, crFutures, arrived, doneCalled, arrivedAtDone, firstRegAt, doneExc>>
  /\ UNCHANGED <<dispatchVars, connectVars, runVars, stateVars>>

\* add_members(members), lines 30-40; resolved says whether
\* self.resolver(self.guild_id) returns the guild rather than None.
AddMembers(members, resolved) ==
  /\ cr.exists
  /\ members # <<>>
  /\ Len(cr.buffer) + Len(members) <= MaxBuffer
  /\ cr' = [cr EXCEPT !.buffer = ExtendBuffer(@, members, cr.waiters)]
  /\ guildMembers' = IF cr.cache /\ resolved THEN MergeAll(guildMembers, members)
                     ELSE guildMembers
  /\ arrived' = arrived \o members
  /\ UNCHANGED <<crFutures, doneCalled, arrivedAtDone, firstRegAt, doneExc>>
  /\ UNCHANGED <<dispatchVars, connectVars, runVars, stateVars>>

\* wait() up to `await future', lines 43-46.
Wait ==
  /\ cr.exists
  /\ Len(crFutures) < MaxCallers
  /\ crFutures' = Append(crFutures, NewChunkFuture("wait"))
  /\ cr' = [cr EXCEPT !.waiters = Append(@, Len(crFutures) + 1)]
  /\ firstRegAt' = IF firstRegAt = -1 THEN Len(arrived) ELSE firstRegAt
  /\ UNCHANGED <<guildMembers, arrived, doneCalled, arrivedAtDone, doneExc>>
  /\ UNCHANGED <<dispatchVars, connectVars, runVars, stateVars>>

\* get_future(), lines 50-53.
GetFuture ==
  /\ cr.exists
  /\ Len(crFutures) < MaxCallers
  /\ crFutures' = Append(crFutures, NewChunkFuture("get_future"))
  /\ cr' = [cr EXCEPT !.waiters = Append(@, Len(crFutures) + 1)]
  /\ firstRegAt' = IF firstRegAt = -1 THEN Len(arrived) ELSE firstRegAt
  /\ UNCHANGED <<guildMembers, arrived, doneCalled, arrivedAtDone, doneExc>>
  /\ UNCHANGED <<dispatchVars, connectVars, runVars, stateVars>>

\* A caller gives up: the task awaiting in wait() is cancelled, or the holder
\* of a get_future() future cancels it.
ChunkCancel(f) ==
  /\ f \in DOMAIN crFutures
  /\ crFutures[f].state = "PENDING"
  /\ crFutures' = [crFutures EXCEPT ![f].state = "CANCELLED"]
  /\ UNCHANGED <<cr, guildMembers, arrived, doneCalled, arrivedAtDone, firstRegAt, doneExc>>
  /\ UNCHANGED <<dispatchVars, connectVars, runVars, stateVars>>

\* done(), lines 55-58.
Done ==
  /\ cr.exists
  /\ LET r == ResolveAll(crFutures, cr.waiters) IN
     /\ crFutures' = r.futs
     /\ doneExc' = r.raised
  /\ doneCalled' = TRUE
  /\ arrivedAtDone' = IF doneCalled THEN arrivedAtDone ELSE Len(arrived)
  /\ UNCHANGED <<cr, guildMembers, arrived, firstRegAt>>
  /\ UNCHANGED <<dispatchVars, connectVars, runVars, stateVars>>

\* The caller of wait() resumes from `await future' with the result or with
\* CancelledError, and leaves through the finally clause, lines 46-48.
WaitResume(f) ==
  /\ f \in DOMAIN crFutures
  /\ crFutures[f].kind = "wait"
  /\ crFutures[f].state # "PENDING"
  /\ ~crFutures[f].resumed
  /\ crFutures' = [crFutures EXCEPT ![f].resumed = TRUE]
  /\ cr' = [cr EXCEPT !.waiters = RemoveWaiter(@, f)]
  /\ UNCHANGED <<guildMembers, arrived, doneCalled, arrivedAtDone, firstRegAt, doneExc>>
  /\ UNCHANGED <<dispatchVars, connectVars, runVars, stateVars>>

InitChunk ==
  /\ cr = [exists |-> FALSE, cache |-> TRUE, buffer |-> <<>>, waiters |-> <<>>]
  /\ crFutures = <<>>
  /\ guildMembers = [i \in MemberIds |-> NoMember]
  /\ arrived = <<>>
  /\ doneCalled = FALSE
  /\ arrivedAtDone = 0
  /\ firstRegAt = -1
  /\ doneExc = "none"

(***************************************************************************)
(* Client.clear, lines 379-386, and the guild cache it resets.             *)
(***************************************************************************)
GuildIds == {1, 2}

\* self._connection.clear(): the state manager's cache is emptied.
StateClear(gs) == {}

\* self._connection._get_guild(id), which Client.get_guild returns
\* (line 281): whether it finds a guild.
GetGuild(gs, id) == id \in gs

\* (as ClientClear, without self._ready.clear())
ClientClear_KeepReady(isClosed, isReady, gs, h) ==
  [closed |-> FALSE, ready |-> isReady, guilds |-> StateClear(gs), http |-> 0]

\* Lines 383-386, given _closed, _ready, the cached guilds and the close calls
\* made on the REST transport's session: recreate() gives the transport a new
\* session, on which close has not been called.
ClientClear(isClosed, isReady, gs, h) ==
  [closed |-> FALSE, ready |-> FALSE, guilds |-> StateClear(gs), http |-> 0]

\* clear() is called by the host.
Clear ==
  /\ LET r == ClientClear(closed, ready, guilds, http) IN
     /\ closed' = r.closed
     /\ ready' = r.ready
     /\ guilds' = r.guilds
     /\ http' = r.http
  /\ lastClear' = [called |-> TRUE, closed |-> closed, ready |-> ready, guilds |-> guilds,
                   connected |-> ws # 0]
  /\ UNCHANGED cs
  /\ UNCHANGED <<socks, ws, wsCloseCalls, pc, reconnect, wsParams, attempts, sleeps,
                 disconnects, lastCatch, connectExc, closePc, closeTarget, connectCloses>>
  /\ UNCHANGED <<dispatchVars, chunkVars, runVars>>

\* poll_event hands a guild payload to the state manager, which caches the
\* guild.
GuildCreate(id) ==
  /\ pc = "polling"
  /\ guilds' = guilds \cup {id}
  /\ UNCHANGED <<cs, lastClear>>
  /\ UNCHANGED <<dispatchVars, connectVars, chunkVars, runVars>>

(***************************************************************************)
(* ConnectionState.__init__, src/qq/state.py lines 70-104.                 *)
(***************************************************************************)
\* The defaults of options.get('max_messages', 1000), also the value of
\* line 84, and of options.get('guild_ready_timeout', 2.0).
DefaultMaxMessages == 1000
DefaultGuildReadyTimeout == 2

\* An option of the constructor: not given, None, or a number.
OptAbsent == [kind |-> "absent", v |-> 0]
OptNone == [kind |-> "None", v |-> 0]
OptInt(n) == [kind |-> "int", v |-> n]

\* The options a state manager is constructed with.
StateOptions ==
  [max_messages : {OptAbsent, OptNone} \cup {OptInt(n) : n \in -MaxOpt..MaxOpt},
   guild_ready_timeout : {OptAbsent} \cup {OptInt(n) : n \in -MaxOpt..MaxOpt},
   application_id : {OptAbsent} \cup {OptInt(n) : n \in 1..MaxOpt}]

\* options.get(key, default); options.get(key) has the default None.
OptionsGet(opt, default) == IF opt.kind = "absent" THEN default ELSE opt

\* (as MaxMessages, with zero kept)
MaxMessages_ZeroKept(opt) ==
  LET m == OptionsGet(opt, OptInt(DefaultMaxMessages)) IN
  IF m.kind # "None" /\ m.v < 0 THEN OptInt(DefaultMaxMessages) ELSE m

\* Lines 82-84: self.max_messages.
MaxMessages(opt) ==
  LET m == OptionsGet(opt, OptInt(DefaultMaxMessages)) IN
  IF m.kind # "None" /\ m.v <= 0 THEN OptInt(DefaultMaxMessages) ELSE m

\* The attributes assigned by lines 80-93, in order, and those of lines 97-99.
AssignedFirst ==
  <<"loop", "http", "max_messages", "dispatch", "handlers", "hooks", "shard_count",
    "_ready_task", "application_id", "heartbeat_timeout", "guild_ready_timeout">>
AssignedLast == <<"_chunk_requests", "parsers">>

\* (as TimeoutRejected, accepting every timeout)
TimeoutRejected_Never(grt) == FALSE

\* Line 94: whether the guild-ready timeout is refused.
TimeoutRejected(grt) == grt.v < 0

\* The constructor as a whole, for options o: what it raised, the attributes
\* it had assigned when it ended, their values, and whether it reached
\* self.clear() (line 104).
StateInit(o) ==
  LET grt == OptionsGet(o.guild_ready_timeout, OptInt(DefaultGuildReadyTimeout))
      rejected == TimeoutRejected(grt)
  IN [called |-> TRUE,
      options |-> o,
      built |-> ~rejected,
      raised |-> IF rejected THEN "ValueError" ELSE "none",
      assigned |-> IF rejected THEN AssignedFirst ELSE AssignedFirst \o AssignedLast,
      max_messages |-> MaxMessages(o.max_messages),
      application_id |-> OptionsGet(o.application_id, OptNone),
      guild_ready_timeout |-> grt,
      cleared |-> ~rejected]

\* ConnectionState(dispatch=..., handlers=..., hooks=..., http=..., loop=...,
\* **o) is called.
Construct(o) ==
  /\ cs' = StateInit(o)
  /\ UNCHANGED <<guilds, lastClear>>
  /\ UNCHANGED <<dispatchVars, connectVars, chunkVars, runVars>>

\* Before any construction.
NotConstructed ==
  [called |-> FALSE,
   options |-> [max_messages |-> OptAbsent, guild_ready_timeout |-> OptAbsent,
                application_id |-> OptAbsent],
   built |-> FALSE, raised |-> "none", assigned |-> <<>>, max_messages |-> OptNone,
   application_id |-> OptNone, guild_ready_timeout |-> OptInt(0), cleared |-> FALSE]

NextState == \E o \in StateOptions : Construct(o)

InitState ==
  /\ cs = NotConstructed
  /\ guilds = {}
  /\ lastClear = [called |-> FALSE, closed |-> FALSE, ready |-> FALSE, guilds |-> {},
                  connected |-> FALSE]

\* A session that the host connects, closes and clears.
NextClear ==
  \/ \E r \in BOOLEAN : ConnectStart(r)
  \/ ConnectOk
  \/ PollReady
  \/ \E id \in GuildIds : GuildCreate(id)
  \/ \E c \in Hosts : HostClose(c)
  \/ \E c \in Hosts : CloseWsDone(c)
  \/ \E c \in Hosts : HostCloseDone(c)
  \/ Clear

\* The ChunkRequest and the guild's member cache.
NextChunkCache ==
  \/ \E c \in BOOLEAN : ChunkInit(c)
  \/ \E m \in Members : GuildAddMember(m)
  \/ \E ms \in SeqsUpTo(Members, MaxBuffer), r \in BOOLEAN : AddMembers(ms, r)

\* The members a ChunkRequest made with cache=False is given: with no cache
\* to merge them into, their joined_at plays no part.
JoinedMembers == {m \in Members : m.joined_at = 1}

\* A ChunkRequest made with cache=False, and its waiters.
NextChunk ==
  \/ ChunkInit(FALSE)
  \/ \E ms \in SeqsUpTo(JoinedMembers, MaxBuffer), r \in BOOLEAN : AddMembers(ms, r)
  \/ Wait
  \/ GetFuture
  \/ \E f \in 1..MaxCallers : ChunkCancel(f)
  \/ Done
  \/ \E f \in 1..MaxCallers : WaitResume(f)

(***************************************************************************)
(* The specifications.                                                     *)
(***************************************************************************)
Init == InitDispatch /\ InitConnect /\ InitChunk /\ InitRun /\ InitState

SpecWaiters == Init /\ [][NextWaiters]_vars

SpecHandlers == Init /\ [][NextHandlers]_vars

SpecConnect == Init /\ [][NextConnect]_vars

SpecChunk == Init /\ [][NextChunk]_vars

SpecChunkCache == Init /\ [][NextChunkCache]_vars

SpecRun == Init /\ [][NextRun]_vars

SpecClear == Init /\ [][NextClear]_vars

SpecState == Init /\ [][NextState]_vars

(***************************************************************************)
(* Properties of the one-shot waiters (SpecWaiters).                       *)
(***************************************************************************)
\* The waiters registered for event e.
WaitersOf(e) == IF e \in DOMAIN listeners THEN listeners[e] ELSE <<>>

\* The same, after the step.
WaitersOfNext(e) == IF e \in DOMAIN listeners' THEN listeners'[e] ELSE <<>>

\* C1: a dispatch call resolves every registered, non-cancelled waiter of the
\* event whose predicate returns true, with None for no positional argument,
\* with the argument itself for one, and with the tuple of all of them for two
\* or more.
C1_ResultShapedByArity ==
  [][\A e \in Events, a \in ArgTuples :
       Dispatch(e, a) =>
         \A i \in DOMAIN WaitersOf(e) :
           LET w == WaitersOf(e)[i] IN
           (futures[w.fut].state # "CANCELLED" /\ CallCondition(w.cond, a) = "true")
             => /\ futures'[w.fut].state = "FINISHED"
                /\ futures'[w.fut].exception = "none"
                /\ Len(a) = 0 => futures'[w.fut].result = [kind |-> "None", items |-> <<>>]
                /\ Len(a) = 1 => futures'[w.fut].result = [kind |-> "object", items |-> <<a[1]>>]
                /\ Len(a) >= 2 => futures'[w.fut].result = [kind |-> "tuple", items |-> a]
    ]_vars

\* Two waiters have been resolved by two dispatch calls: one holds the single
\* argument of its call, the other the tuple of the two arguments of its call,
\* in their order.
C1_Witness ==
  \E f, g \in DOMAIN futures :
    /\ futures[f].state = "FINISHED" /\ futures[f].result = PyObj("b")
    /\ futures[g].state = "FINISHED" /\ futures[g].result = PyTuple(<<"a", "b">>)

\* C2: in a dispatch call in which a waiter's predicate raises, that waiter's
\* future holds the raised exception and the waiter is no longer registered,
\* every waiter of the event whose predicate returned false is still registered
\* and pending, in the same order, and dispatch raises nothing to its caller.
C2_PredicateFailureIsolated ==
  [][\A e \in Events, a \in ArgTuples :
       (/\ Dispatch(e, a)
        /\ \E i \in DOMAIN WaitersOf(e) :
             /\ futures[WaitersOf(e)[i].fut].state # "CANCELLED"
             /\ CallCondition(WaitersOf(e)[i].cond, a) = "raise")
       => /\ dispatchExc' = "none"
          /\ \A i \in DOMAIN WaitersOf(e) :
               LET w == WaitersOf(e)[i] IN
               /\ (futures[w.fut].state # "CANCELLED" /\ CallCondition(w.cond, a) = "raise")
                    => /\ futures'[w.fut].state = "FINISHED"
                       /\ futures'[w.fut].exception = PredicateError
                       /\ \A j \in DOMAIN WaitersOfNext(e) : WaitersOfNext(e)[j] # w
               /\ (futures[w.fut].state # "CANCELLED" /\ CallCondition(w.cond, a) = "false")
                    => /\ futures'[w.fut] = futures[w.fut]
                       /\ futures[w.fut].state = "PENDING"
                       /\ \E j \in DOMAIN WaitersOfNext(e) : WaitersOfNext(e)[j] = w
          /\ \A e2 \in Events \ {e} : WaitersOfNext(e2) = WaitersOf(e2)
    ]_vars

\* A waiter's predicate has raised, and a waiter registered for the same event
\* before it is still registered and pending.
C2_Witness ==
  \E f, g \in DOMAIN futures :
    /\ g < f
    /\ futures[f].exception = PredicateError
    /\ futures[g].event = futures[f].event
    /\ futures[g].state = "PENDING"
    /\ \E j \in DOMAIN WaitersOf(futures[g].event) : WaitersOf(futures[g].event)[j].fut = g
    /\ \A j \in DOMAIN WaitersOf(futures[f].event) : WaitersOf(futures[f].event)[j].fut # f

C9_HandlerFailureIsolated ==
  /\ dispatchExc = "none"
  /\ \A i \in DOMAIN tasks :
       /\ tasks[i].handlerExc <=> tasks[i].errs = 1
       /\ tasks[i].handlerExc => tasks[i].st \in {"on_error", "done", "failed"}
       /\ tasks[i].st = "failed" <=> tasks[i].exc = "OnErrorError"
       /\ tasks[i].exc # "none" => tasks[i].handlerExc

\* The handler of a task raised, and a task created after that for another
\* event has run its handler to completion.
C9_Witness ==
  \E i, j \in DOMAIN tasks :
    /\ i < j
    /\ tasks[i].handlerExc
    /\ tasks[j].afterFailure
    /\ tasks[j].event # tasks[i].event
    /\ tasks[j].st = "done" /\ ~tasks[j].handlerExc

\* C10: Client.event called with something that is not a coroutine function
\* raises TypeError and leaves every on_<event> attribute as it was; called
\* with a coroutine function it sets the attribute of that name alone.
C10_EventRejectsNonCoroutine ==
  [][\A c \in Coros :
       Event(c) =>
         /\ ~c.iscoro => (eventRaised' /\ attrs' = attrs)
         /\ c.iscoro => (/\ ~eventRaised'
                         /\ attrs'[c.name] = c.id
                         /\ \A e \in Events \ {c.name} : attrs'[e] = attrs[e])
    ]_vars

\* A registration has just failed while a handler was registered.
C10_Witness ==
  /\ eventRaised
  /\ \E e \in Events : attrs[e] # NoAttr

\* C19: a dispatch call for an event with a handler appends one task to
\* the tasks created so far, not yet started, and returns with every other
\* task as it was; a dispatch call for an event without a handler creates
\* none; and a task runs its first step only when every task created before
\* it has run or been cancelled.
C19_HandlersInDispatchOrder ==
  [][/\ \A e \in Events, a \in ArgTuples :
          Dispatch(e, a) =>
            /\ attrs[e] # NoAttr
                 => /\ Len(tasks') = Len(tasks) + 1
                    /\ SubSeq(tasks', 1, Len(tasks)) = tasks
                    /\ tasks'[Len(tasks')].event = e
                    /\ tasks'[Len(tasks')].coro = attrs[e]
                    /\ tasks'[Len(tasks')].st = "created"
            /\ attrs[e] = NoAttr => tasks' = tasks
     /\ \A j \in DOMAIN tasks :
          (tasks[j].st = "created" /\ tasks'[j].st = "running")
            => \A i \in 1..(j - 1) : tasks[i].st # "created"
    ]_vars

\* Two dispatch calls created two handler tasks; the second has run to its
\* end while the first, started before it, is still running.
C19_Witness ==
  /\ Len(tasks) = 2
  /\ tasks[1].event # tasks[2].event
  /\ tasks[1].st = "running"
  /\ tasks[2].st = "done"

(***************************************************************************)
(* Properties of connect and close (SpecConnect).                          *)
(***************************************************************************)
\* C3: whatever the number of close() calls and however they interleave at
\* close's awaits, QQWebSocket.close and HTTPClient.close are each called at
\* most once, and a close() call made when the client is already closed
\* changes nothing of the client.
C3_CloseIdempotent ==
  [][/\ wsCloseCalls' <= 1
     /\ http' <= 1
     /\ \A c \in Closers :
          (HostClose(c) /\ closed)
            => UNCHANGED <<closed, ready, socks, ws, http, wsCloseCalls>>
    ]_vars

\* A second close() call has returned while the first is still suspended in
\* QQWebSocket.close.
C3_Witness ==
  /\ closePc["host1"] = "ws_close"
  /\ closePc["host2"] = "done"
  /\ wsCloseCalls = 1

\* C4: with reconnect=False, after a ConnectionClosed is caught connect calls
\* close once and makes no further attempt and no sleep; it returns without
\* an exception when the code is 1000 and raises the ConnectionClosed
\* otherwise.
C4_NoReconnectClosure ==
  (~reconnect /\ lastCatch.exc.kind = "ConnectionClosed")
    => /\ connectCloses = 1
       /\ attempts = lastCatch.attempts
       /\ sleeps = lastCatch.sleeps
       /\ lastCatch.exc.n = 1000
            => pc \in {"closing", "returned"} /\ connectExc = NoExc
       /\ lastCatch.exc.n # 1000
            => /\ pc \in {"closing", "raised"}
               /\ pc = "raised" => connectExc = lastCatch.exc

\* connect(reconnect=False) has raised a ConnectionClosed with code 4010.
C4_Witness ==
  /\ ~reconnect
  /\ pc = "raised"
  /\ connectExc = [kind |-> "ConnectionClosed", n |-> 4010]
  /\ connectCloses = 1

\* C5: with reconnect=True and the client not closed, after a ConnectionClosed
\* with a code other than 1000 is caught connect calls close and raises that
\* exception: no attempt and no sleep follows.
C5_FatalClosure ==
  (/\ reconnect
   /\ ~lastCatch.closed
   /\ lastCatch.exc.kind = "ConnectionClosed"
   /\ lastCatch.exc.n # 1000)
    => /\ pc \in {"closing", "raised"}
       /\ pc = "raised" => connectExc = lastCatch.exc
       /\ connectCloses = lastCatch.closes + 1
       /\ closed
       /\ attempts = lastCatch.attempts
       /\ sleeps = lastCatch.sleeps

\* connect(reconnect=True) has raised the ConnectionClosed that ended the
\* polling of a connected socket.
C5_Witness ==
  /\ reconnect
  /\ pc = "raised"
  /\ connectExc = [kind |-> "ConnectionClosed", n |-> 4010]
  /\ ws # 0
  /\ ~lastCatch.closed

\* The failures connect retries after a backoff sleep.
Transient ==
  {x \in Failures :
     /\ ~(x.kind = "OSError" /\ x.n \in {54, 10054})
     /\ ~(x.kind = "ConnectionClosed" /\ x.n # 1000)}

\* What C6 says of the time between the catch of a transient failure and the
\* next catch: connect has dispatched disconnect and begun one sleep, it has
\* raised nothing, any attempt it has made since asks for a resume, and it has
\* returned only if the client was closed meanwhile.
Absorbed ==
  /\ pc \in {"sleeping", "connecting", "polling", "returned"}
  /\ connectExc = NoExc
  /\ disconnects = lastCatch.disconnects + 1
  /\ sleeps = lastCatch.sleeps + 1
  /\ pc \in {"connecting", "polling"}
       => attempts = lastCatch.attempts + 1 /\ wsParams.resume = "true"
  /\ pc = "returned" => closed

\* C6: with reconnect=True and the client not closed, a transient failure is
\* absorbed wherever it occurs, the first connection attempt included.
C6_TransientAbsorbed ==
  (reconnect /\ ~lastCatch.closed /\ lastCatch.exc \in Transient) => Absorbed

\* C6, for the failures caught once a first socket exists: this much holds.
C6_AbsorbedAfterFirstSocket ==
  (reconnect /\ ~lastCatch.closed /\ lastCatch.exc \in Transient /\ ~lastCatch.first)
    => Absorbed

(***************************************************************************)
(* Properties of the ChunkRequest (SpecChunk, SpecChunkCache).             *)
(***************************************************************************)
\* The list the holder of a resolved future reads: done() hands every waiter
\* the buffer itself, not a copy of it.
ResultOf(f) == IF crFutures[f].result = "buffer" THEN cr.buffer ELSE <<>>

\* The members passed to add_members before done() was first called.
ArrivedBeforeDone == SubSeq(arrived, 1, arrivedAtDone)

\* C7: once done() has been called, every future created by wait or
\* get_future before it, and not cancelled by its caller, is resolved; all of
\* them hold the same list, and that list begins with every member passed to
\* add_members before done(), in arrival order, whether or not a caller was
\* registered when the member arrived.
C7_WaitersShareBuffer ==
  doneCalled =>
    \A f \in DOMAIN crFutures :
      crFutures[f].beforeDone =>
        /\ crFutures[f].state \in {"FINISHED", "CANCELLED"}
        /\ crFutures[f].state = "FINISHED" =>
             /\ Len(ResultOf(f)) >= arrivedAtDone
             /\ SubSeq(ResultOf(f), 1, arrivedAtDone) = ArrivedBeforeDone
             /\ \A g \in DOMAIN crFutures :
                  (crFutures[g].beforeDone /\ crFutures[g].state = "FINISHED")
                    => ResultOf(g) = ResultOf(f)

\* A first member arrived before any caller registered, another while callers
\* waited, and done() has resolved every caller, a wait() and a get_future()
\* one among them.
C7_Witness ==
  /\ doneCalled
  /\ firstRegAt >= 1
  /\ arrivedAtDone > firstRegAt
  /\ Len(crFutures) = MaxCallers
  /\ \A f \in DOMAIN crFutures :
       crFutures[f].beforeDone /\ crFutures[f].state = "FINISHED"
  /\ \E f, g \in DOMAIN crFutures :
       crFutures[f].kind = "wait" /\ crFutures[g].kind = "get_future"

\* C8: add_members changes the cached member of an id only when none is cached
\* or the cached one has no joined_at, and then to a member of the call with
\* that id; with cache false or the guild unresolved it leaves the guild's
\* cache as it is; in every case the buffer is extended by the members.
C8_CacheMergeKeepsJoined ==
  [][\A ms \in SeqsUpTo(Members, MaxBuffer), r \in BOOLEAN :
       AddMembers(ms, r) =>
         /\ cr'.buffer = cr.buffer \o ms
         /\ (~cr.cache \/ ~r) => guildMembers' = guildMembers
         /\ \A i \in MemberIds :
              /\ (guildMembers[i] # NoMember /\ guildMembers[i].joined_at # 0)
                   => guildMembers'[i] = guildMembers[i]
              /\ guildMembers'[i] # guildMembers[i]
                   => \E k \in DOMAIN ms : ms[k].id = i /\ guildMembers'[i] = ms[k]
              /\ (/\ cr.cache /\ r
                  /\ guildMembers[i] = NoMember
                  /\ \E k \in DOMAIN ms : ms[k].id = i)
                   => guildMembers'[i] # NoMember
    ]_vars

\* A member with a joined_at is cached, and the buffer of a caching
\* ChunkRequest holds another member of that id.
C8_Witness ==
  /\ cr.exists /\ cr.cache
  /\ \E i \in MemberIds, k \in DOMAIN cr.buffer :
       /\ guildMembers[i].joined_at # 0
       /\ cr.buffer[k].id = i
       /\ cr.buffer[k] # guildMembers[i]
       /\ k = Len(cr.buffer)

(***************************************************************************)
(* Properties of run (SpecRun).                                            *)
(***************************************************************************)
\* C11: once run has returned, however the runner task ended, the client is
\* closed and close's effects have happened exactly once: the REST transport
\* has been closed once and the gateway socket at most once.
C11_RunCloses ==
  loopPc = "returned"
    => /\ closed
       /\ http = 1
       /\ wsCloseCalls <= 1

\* C11, as far as it holds: once run has returned the client is closed, and
\* neither the REST transport nor the gateway socket was closed twice.
C11_ClosedAfterRun ==
  loopPc = "returned"
    => /\ closed
       /\ http <= 1
       /\ wsCloseCalls <= 1

(***************************************************************************)
(* Properties of clear and of the state manager's construction.            *)
(***************************************************************************)
\* C12: right after clear(), whatever it found, is_closed() and is_ready()
\* are false and no guild id that was cached before is found by get_guild.
C12_ClearResets ==
  [][Clear =>
       /\ ~closed'
       /\ ~ready'
       /\ \A id \in guilds : ~GetGuild(guilds', id)
    ]_vars

\* clear() has been called on a connected client that was closed and ready
\* and had a guild cached, and nothing has been done since.
C12_Witness ==
  /\ lastClear.called
  /\ lastClear.connected /\ lastClear.closed /\ lastClear.ready
  /\ lastClear.guilds # {}
  /\ ~closed /\ ~ready /\ guilds = {} /\ http = 0

\* Whether attribute a was assigned by the last construction.
Assigned(a) == \E i \in DOMAIN cs.assigned : cs.assigned[i] = a

\* C13, as stated: a negative guild-ready timeout makes the construction fail
\* with ValueError before anything else is initialized, and every state
\* manager that was constructed has a guild_ready_timeout >= 0.
C13_TimeoutRejectedFirst ==
  /\ (cs.called /\ cs.options.guild_ready_timeout.kind = "int"
                /\ cs.options.guild_ready_timeout.v < 0)
       => /\ cs.raised = "ValueError"
          /\ ~cs.built
          /\ \A i \in DOMAIN cs.assigned : cs.assigned[i] = "guild_ready_timeout"
  /\ cs.built => cs.guild_ready_timeout.v >= 0

\* C13, amended: a negative guild-ready timeout makes the construction fail
\* with ValueError once lines 80-93 have assigned their attributes,
\* max_messages among them, and before the chunk-request registry and the
\* parsers table are made and clear() is called; every state manager that was
\* constructed has a guild_ready_timeout >= 0.
C13_TimeoutRejected ==
  /\ (cs.called /\ cs.options.guild_ready_timeout.kind = "int"
                /\ cs.options.guild_ready_timeout.v < 0)
       => /\ cs.raised = "ValueError"
          /\ ~cs.built
          /\ Assigned("max_messages") /\ Assigned("guild_ready_timeout")
          /\ ~Assigned("_chunk_requests") /\ ~Assigned("parsers")
          /\ ~cs.cleared
  /\ cs.built => (cs.guild_ready_timeout.v >= 0 /\ cs.raised = "none")

\* A construction with guild_ready_timeout = -1 has failed.
C13_Witness ==
  /\ cs.called
  /\ cs.options.guild_ready_timeout = OptInt(-1)
  /\ cs.raised = "ValueError"
  /\ ~cs.built

\* C14: the effective max_messages is 1000 for a supplied integer that is
\* zero or negative and the supplied integer otherwise, so it is positive
\* whenever it is not None; None is kept.
C14_MaxMessagesPositive ==
  cs.called =>
    LET given == cs.options.max_messages IN
    /\ (given.kind = "int" /\ given.v <= 0) => cs.max_messages = OptInt(1000)
    /\ (given.kind = "int" /\ given.v > 0) => cs.max_messages = given
    /\ given.kind = "None" => cs.max_messages = OptNone
    /\ cs.max_messages.kind = "int" => cs.max_messages.v > 0
    /\ cs.max_messages.kind \in {"int", "None"}

\* A state manager has been constructed with max_messages = 0.
C14_Witness ==
  /\ cs.built
  /\ cs.options.max_messages = OptInt(0)
  /\ cs.max_messages = OptInt(1000)

(***************************************************************************)
(* More properties of connect (SpecConnect).                               *)
(***************************************************************************)
\* C15: from the catch of a ReconnectWebSocket to the next catch, connect has
\* dispatched disconnect once more, has called close no more and begun no
\* sleep, and has raised nothing; unless the client was closed, it has made
\* one more attempt, and while that attempt is under way ws_params carries
\* the sequence and session id of the current QQWebSocket and the resume flag
\* of the exception.
C15_ReconnectDirective ==
  lastCatch.exc.kind = "ReconnectWebSocket"
    => /\ disconnects = lastCatch.disconnects + 1
       /\ connectCloses = lastCatch.closes
       /\ sleeps = lastCatch.sleeps
       /\ connectExc = NoExc
       /\ pc \in {"connecting", "polling", "returned"}
       /\ pc = "returned" => closed
       /\ pc # "returned" => attempts = lastCatch.attempts + 1
       /\ pc = "connecting"
            => /\ wsParams.sequence = socks[ws].sequence
               /\ wsParams.session = socks[ws].session
               /\ wsParams.resume = (IF lastCatch.exc.n = 1 THEN "true" ELSE "false")

\* After a ReconnectWebSocket with resume False, raised once the sequence had
\* advanced, the next attempt is under way and asks for no resume.
C15_Witness ==
  /\ lastCatch.exc = ReconnectWebSocket(FALSE)
  /\ pc = "connecting"
  /\ wsParams.resume = "false"
  /\ wsParams.sequence >= 1
  /\ sleeps = 0 /\ connectCloses = 0

\* The OSErrors of a connection reset by the peer.
PeerReset == {x \in Failures : x.kind = "OSError" /\ x.n \in {54, 10054}}

\* What C16 says of the time between the catch of a peer reset and the next
\* catch.
ResumedAtOnce ==
  /\ disconnects = lastCatch.disconnects + 1
  /\ sleeps = lastCatch.sleeps
  /\ connectCloses = lastCatch.closes
  /\ connectExc = NoExc
  /\ pc \in {"connecting", "polling"}
  /\ attempts = lastCatch.attempts + 1
  /\ pc = "connecting"
       => /\ wsParams.resume = "true"
          /\ ~wsParams.initial
          /\ wsParams.sequence = socks[ws].sequence
          /\ wsParams.session = socks[ws].session

\* C16: with reconnect=True and the client not closed, an OSError with errno
\* 54 or 10054 makes connect dispatch disconnect and retry at once with
\* resume=True, initial=False and the current sequence and session id,
\* without a sleep.
C16_PeerResetResumes ==
  (reconnect /\ ~lastCatch.closed /\ lastCatch.exc \in PeerReset) => ResumedAtOnce

\* C16, for the peer resets caught once a first socket exists: this much holds.
C16_ResumesAfterFirstSocket ==
  (reconnect /\ ~lastCatch.closed /\ lastCatch.exc \in PeerReset /\ ~lastCatch.first)
    => ResumedAtOnce

\* C17: with reconnect=False, after a failure that is no ConnectionClosed is
\* caught, connect has dispatched disconnect and called close once, makes no
\* attempt and no sleep, and raises that failure once close has returned.
C17_NoReconnectReraises ==
  (~reconnect /\ lastCatch.exc \in Failures /\ lastCatch.exc.kind # "ConnectionClosed")
    => /\ disconnects = lastCatch.disconnects + 1
       /\ connectCloses = lastCatch.closes + 1
       /\ attempts = lastCatch.attempts
       /\ sleeps = lastCatch.sleeps
       /\ pc \in {"closing", "raised"}
       /\ pc = "closing" => connectExc = NoExc
       /\ pc = "raised" => connectExc = lastCatch.exc

\* connect(reconnect=False) has raised the peer reset that ended the polling
\* of a connected socket.
C17_Witness ==
  /\ ~reconnect
  /\ pc = "raised"
  /\ connectExc = [kind |-> "OSError", n |-> 54]
  /\ ws # 0
  /\ connectCloses = 1 /\ sleeps = 0 /\ attempts = 1

\* C20: connect calls from_client only while the client is not closed; it
\* returns only when the client is closed, and without an exception; and
\* with the client closed, its tests of is_closed() make it return: at the
\* head of the loop on entry, after a ReconnectWebSocket, after a peer reset
\* and after the backoff sleep, and at line 440 after a failure.
C20_NoAttemptWhileClosed ==
  [][/\ attempts' > attempts => (~closed /\ ~closed')
     /\ (pc' = "returned" /\ pc # "returned") => (closed' /\ connectExc' = NoExc)
     /\ (closed /\ pc = "idle" /\ pc' # pc) => pc' = "returned"
     /\ (closed /\ reconnect /\ pc \in {"connecting", "polling", "sleeping"} /\ pc' # pc)
          => \/ pc' = "returned"
             \/ pc = "connecting" /\ pc' = "polling"
             \/ pc = "sleeping" /\ ws = 0 /\ pc' = "raised"
    ]_vars

\* close() was called during the backoff sleep that followed a failure of a
\* connected socket, and connect has returned.
C20_Witness ==
  /\ reconnect
  /\ pc = "returned"
  /\ closed
  /\ ~lastCatch.closed
  /\ lastCatch.exc \in Transient
  /\ sleeps = lastCatch.sleeps + 1
  /\ attempts = lastCatch.attempts
  /\ ws # 0
  /\ connectExc = NoExc

(***************************************************************************)
(* More properties of the ChunkRequest (SpecChunk).                        *)
(***************************************************************************)
\* The futures in self.waiters.
InWaiters == {cr.waiters[i] : i \in DOMAIN cr.waiters}

\* The futures wait() has created.
WaitFutures == {f \in DOMAIN crFutures : crFutures[f].kind = "wait"}

\* What C21 says of every state: done() has raised nothing; a future was
\* resolved by one set_result or by none; self.waiters holds each future at
\* most once, every future of get_future, and of the futures of wait() those
\* whose caller has not resumed: none, once all of them have.
WaitersSettled ==
  /\ doneExc = "none"
  /\ \A f \in DOMAIN crFutures :
       /\ crFutures[f].sets <= 1
       /\ crFutures[f].state = "FINISHED" <=> crFutures[f].sets = 1
       /\ crFutures[f].state = "FINISHED" => crFutures[f].result = "buffer"
       /\ crFutures[f].kind = "wait" => (f \in InWaiters <=> ~crFutures[f].resumed)
       /\ crFutures[f].kind = "get_future" => f \in InWaiters
  /\ Cardinality(InWaiters) = Len(cr.waiters)
  /\ (doneCalled /\ \A f \in WaitFutures : crFutures[f].resumed)
       => InWaiters \cap WaitFutures = {}

\* C21: a call of done() resolves with the buffer every pending future of
\* self.waiters, leaves the futures that were done or cancelled as they were,
\* and raises nothing; the caller of wait() that resumes, with the result or
\* cancelled, takes its own future out of self.waiters and no other; so that
\* once done() was called and every caller of wait() has resumed,
\* self.waiters holds no future of wait().
C21_DoneAndWaitCleanup ==
  [][/\ Done =>
          /\ doneExc' = "none"
          /\ cr'.waiters = cr.waiters
          /\ \A f \in DOMAIN crFutures :
               /\ (f \in InWaiters /\ crFutures[f].state = "PENDING")
                    => /\ crFutures'[f].state = "FINISHED"
                       /\ crFutures'[f].result = "buffer"
                       /\ crFutures'[f].sets = 1
               /\ crFutures[f].state # "PENDING"
                    => /\ crFutures'[f].state = crFutures[f].state
                       /\ crFutures'[f].result = crFutures[f].result
                       /\ crFutures'[f].sets = crFutures[f].sets
     /\ \A f \in WaitFutures :
          WaitResume(f) =>
            /\ crFutures[f].state \in {"FINISHED", "CANCELLED"}
            /\ cr'.waiters = SelectSeq(cr.waiters, LAMBDA x : x # f)
            /\ InWaiters' = InWaiters \ {f}
     /\ WaitersSettled'
    ]_vars

\* done() resolved one caller of wait() while another was cancelled; a
\* second done() passed over both futures, the resolved and the cancelled
\* one; both callers have resumed and self.waiters is empty.
C21_Witness ==
  /\ doneCalled
  /\ cr.waiters = <<>>
  /\ \E f, g \in WaitFutures :
       /\ crFutures[f].state = "FINISHED" /\ crFutures[f].sets = 1
       /\ crFutures[g].state = "CANCELLED"
       /\ crFutures[f].skipped /\ crFutures[g].skipped
       /\ crFutures[f].resumed /\ crFutures[g].resumed

=============================================================================
